---- MODULE Spec2Model ----
(***************************************************************************)
(* Shopping-list quiz application: Item, ItemPool, ShoppingList, the       *)
(* AppEngine command handlers and the AppCLI dispatcher / read loop.       *)
(*                                                                         *)
(* Texts (Python str) are sequences of one-character strings.  Floats are  *)
(* records [k, s, m]: k is "fin", "inf" or "nan", s the sign (1 or -1) and *)
(* m the magnitude in thousandths (so 1.5 is m = 1500, and a price         *)
(* rounded to 2 decimals has m a multiple of 10).  None is k = "none".     *)
(***************************************************************************)
EXTENDS Integers, Sequences, FiniteSets, TLC

VARIABLES items, shopping_list, continue_execution, message,
          correct_answer, cmd, pc, raised, call, result

\* call and result are the last direct call of a method of core/ and what
\* it returned or raised; the read loop makes no such call by itself
vars == <<items, shopping_list, continue_execution, message,
          correct_answer, cmd, pc, raised, call, result>>

(***************************************************************************)
(* Bounds of the model.                                                    *)
(***************************************************************************)
\* quantities drawn by random.choices(range(1, 10)) are explored up to this
MaxQty == 2

(***************************************************************************)
(* Text primitives (Python str operations used by the code).               *)
(***************************************************************************)
Max(a, b) == IF a >= b THEN a ELSE b

Min(a, b) == IF a <= b THEN a ELSE b

\* s[k:]
From(s, k) == IF k >= Len(s) THEN <<>> ELSE SubSeq(s, k + 1, Len(s))

\* s[:k]
Upto(s, k) == IF k <= 0 THEN <<>> ELSE SubSeq(s, 1, Min(k, Len(s)))

\* s.startswith(p)
StartsWith(s, p) == Len(s) >= Len(p) /\ Upto(s, Len(p)) = p

\* s.find(": ") as a 1-based position, 0 when absent
FindSep(s) ==
  LET hits == {i \in 1..(Len(s) - 1) : s[i] = ":" /\ s[i + 1] = " "}
  IN IF hits = {} THEN 0 ELSE CHOOSE i \in hits : \A j \in hits : i <= j

\* s.split(": ")
RECURSIVE Split(_)
Split(s) ==
  LET i == FindSep(s)
  IN IF i = 0 THEN <<s>>
     ELSE <<Upto(s, i - 1)>> \o Split(From(s, i + 1))

\* s.strip(), whitespace being the blank
RECURSIVE LStrip(_)
LStrip(s) == IF s # <<>> /\ s[1] = " " THEN LStrip(Tail(s)) ELSE s

RECURSIVE RStrip(_)
RStrip(s) ==
  IF s # <<>> /\ s[Len(s)] = " " THEN RStrip(Upto(s, Len(s) - 1)) ELSE s

Strip(s) == RStrip(LStrip(s))

DigitChars == <<"0", "1", "2", "3", "4", "5", "6", "7", "8", "9">>

IsDigit(c) == \E i \in 1..10 : DigitChars[i] = c

DigitVal(c) == (CHOOSE i \in 1..10 : DigitChars[i] = c) - 1

AllDigits(s) == \A i \in 1..Len(s) : IsDigit(s[i])

\* value of a digit string
RECURSIVE ToNat(_)
ToNat(s) ==
  IF s = <<>> THEN 0
  ELSE 10 * ToNat(Upto(s, Len(s) - 1)) + DigitVal(s[Len(s)])

\* str(n) for a natural number
RECURSIVE NatText(_)
NatText(n) ==
  IF n < 10 THEN <<DigitChars[n + 1]>>
  ELSE NatText(n \div 10) \o <<DigitChars[(n % 10) + 1]>>

\* c * n
RECURSIVE Repeat(_, _)
Repeat(c, n) == IF n <= 0 THEN <<>> ELSE <<c>> \o Repeat(c, n - 1)

(***************************************************************************)
(* Floats.                                                                 *)
(***************************************************************************)
Fin(s, m) == [k |-> "fin", s |-> s, m |-> m]

Inf(s) == [k |-> "inf", s |-> s, m |-> 0]

NaN == [k |-> "nan", s |-> 1, m |-> 0]

None == [k |-> "none", s |-> 1, m |-> 0]

\* a == b on floats (nan equals nothing, -0.0 equals 0.0)
FEq(a, b) ==
  /\ a.k = b.k
  /\ a.k \in {"fin", "inf"}
  /\ IF a.k = "inf" THEN a.s = b.s
     ELSE a.m = b.m /\ (a.s = b.s \/ a.m = 0)

\* a > 0
FGtZero(a) ==
  \/ a.k = "inf" /\ a.s = 1
  \/ a.k = "fin" /\ a.s = 1 /\ a.m > 0

\* the magnitudes x.xx5 below 0.1 whose binary64 value lies above the tie
\* (round(0.005, 2) == 0.01 but round(0.015, 2) == 0.01)
TieUp == {5, 25, 35, 55, 65, 85, 95}

\* round(x, 2) on a magnitude in thousandths; the result is in thousandths
RoundMills(m) ==
  LET r == m % 10
      base == m - r
  IN IF r < 5 THEN base
     ELSE IF r > 5 THEN base + 10
     ELSE IF m \in TieUp THEN base + 10 ELSE base

\* round(x, 2)
Round2(a) == IF a.k = "fin" THEN Fin(a.s, RoundMills(a.m)) ELSE a

\* x * q for an int q >= 1
FMul(a, q) == IF a.k = "fin" THEN Fin(a.s, a.m * q) ELSE a

\* x + y for x, y >= 0 or nan (sum() over price * quantity)
FAdd(a, b) ==
  IF a.k = "nan" \/ b.k = "nan" THEN NaN
  ELSE IF a.k = "inf" \/ b.k = "inf" THEN Inf(1)
  ELSE Fin(1, a.m + b.m)

SignText(a) == IF a.s = -1 THEN <<"-">> ELSE <<>>

\* the digits of n, zero-padded on the left to at least w digits
PadNat(n, w) == Repeat("0", w - Len(NatText(n))) \o NatText(n)

\* f"{x:.02f}"
FormatF2(a) ==
  IF a.k = "nan" THEN <<"n", "a", "n">>
  ELSE IF a.k = "inf" THEN SignText(a) \o <<"i", "n", "f">>
  ELSE LET c == RoundMills(a.m) \div 10
       IN SignText(a) \o NatText(c \div 100) \o <<".">> \o PadNat(c % 100, 2)

\* the fraction digits of repr(x): trailing zeros dropped, one digit kept
RECURSIVE TrimZeros(_)
TrimZeros(s) ==
  IF Len(s) > 1 /\ s[Len(s)] = "0" THEN TrimZeros(Upto(s, Len(s) - 1)) ELSE s

\* repr(x) and str(x)
FloatRepr(a) ==
  IF a.k = "nan" THEN <<"n", "a", "n">>
  ELSE IF a.k = "inf" THEN SignText(a) \o <<"i", "n", "f">>
  ELSE SignText(a) \o NatText(a.m \div 1000) \o <<".">>
         \o TrimZeros(PadNat(a.m % 1000, 3))

\* the unsigned body of a numeral: digits, digits.digits, digits. or .digits
\* with at most three fraction digits, or inf, infinity, nan
IsDecimal(s) ==
  LET dots == {i \in 1..Len(s) : s[i] = "."}
  IN \/ s # <<>> /\ AllDigits(s)
     \/ /\ Cardinality(dots) = 1
        /\ LET d == CHOOSE i \in dots : TRUE
           IN /\ AllDigits(Upto(s, d - 1))
              /\ AllDigits(From(s, d))
              /\ Len(s) > 1
              /\ Len(s) - d <= 3

DecimalMills(s) ==
  LET dots == {i \in 1..Len(s) : s[i] = "."}
  IN IF dots = {} THEN 1000 * ToNat(s)
     ELSE LET d == CHOOSE i \in dots : TRUE
              frac == From(s, d)
          IN 1000 * ToNat(Upto(s, d - 1))
               + ToNat(frac \o Repeat("0", 3 - Len(frac)))

\* float(text): [ok |-> FALSE] stands for ValueError
ParseFloat(text) ==
  LET t == Strip(text)
      signed == t # <<>> /\ t[1] \in {"+", "-"}
      sgn == IF signed /\ t[1] = "-" THEN -1 ELSE 1
      body == IF signed THEN Tail(t) ELSE t
  IN IF body \in {<<"i", "n", "f">>,
                  <<"i", "n", "f", "i", "n", "i", "t", "y">>}
       THEN [ok |-> TRUE, val |-> Inf(sgn)]
     ELSE IF body = <<"n", "a", "n">> THEN [ok |-> TRUE, val |-> NaN]
     ELSE IF IsDecimal(body)
       THEN [ok |-> TRUE, val |-> Fin(sgn, DecimalMills(body))]
     ELSE [ok |-> FALSE, val |-> None]

(***************************************************************************)
(* Values of the message field: type is the Python type of the value       *)
(* ("NoneType", "str" or an exception class), fmt the format string with   *)
(* {} for each interpolated value, args the interpolated texts.            *)
(***************************************************************************)
Msg(type, fmt, args) == [type |-> type, fmt |-> fmt, args |-> args]

NoMessage == Msg("NoneType", "", <<>>)

Str(fmt, args) == Msg("str", fmt, args)

\* a result that is either a returned value or a raised exception
Return(v) == [exc |-> "None", val |-> v, err |-> NoMessage]

Raise(e) == [exc |-> e.type, val |-> None, err |-> e]

(***************************************************************************)
(* Python values whose type the code tests with isinstance: a value is its *)
(* type name and its content.                                              *)
(***************************************************************************)
Py(t, v) == [t |-> t, v |-> v]

PyNone == Py("NoneType", <<>>)

PyStr(text) == Py("str", text)

PyInt(n) == Py("int", n)

PyFloat(a) == Py("float", a)

PyList(elems) == Py("list", elems)

PyItem(item) == Py("Item", item)

\* a dict is the sequence of its <<key, value>> pairs in insertion order
PyDict(pairs) == Py("dict", pairs)

\* a direct call of a method: its name and its arguments
Call(op, args) == [op |-> op, args |-> args]

NoCall == Call("", <<>>)

(***************************************************************************)
(* core/errors.py                                                          *)
(***************************************************************************)
InvalidItemNameError(name) ==
  Msg("InvalidItemNameError", "Item name string cannot be empty.", <<>>)

\* InvalidItemPriceError for a price whose str() is the given text
InvalidItemPriceErrorOf(text) ==
  Msg("InvalidItemPriceError",
      "The price argument (\"{}\") does not appear to be any of the following: float, an integer, or a string that can be parsed to a non-negative float.",
      <<text>>)

InvalidItemPriceError(price) == InvalidItemPriceErrorOf(FloatRepr(price))

\* InvalidItemNameError for a name that is not a str, of the given type
InvalidItemNameTypeError(t) ==
  Msg("InvalidItemNameError", "Item name must be a string (not <class '{}'>).",
      <<t>>)

InvalidItemPoolError ==
  Msg("InvalidItemPoolError",
      "ItemsPool needs to be set as a dictionary with non-empty strings as keys and Item instances as values.",
      <<>>)

NonExistingItemError(item_name) ==
  Msg("NonExistingItemError",
      "Item named \"{}\" is not present in the item pool.", <<item_name>>)

DuplicateItemError == Msg("DuplicateItemError", "Duplicate!", <<>>)

InvalidShoppingListSizeError ==
  Msg("InvalidShoppingListSizeError", "Invalid List Size!", <<>>)

\* the built-in errors that the code lets the runtime raise
ValueError(fmt, args) == Msg("ValueError", fmt, args)

OverflowError ==
  Msg("OverflowError", "cannot convert float infinity to integer", <<>>)

(***************************************************************************)
(* core/items.py: Item                                                     *)
(***************************************************************************)
MkItem(name, price) == [name |-> name, price |-> price]

\* mutant of ItemInit: the price is stored as given, not rounded
ItemInit_NoRound(name, price) ==
  IF name = <<>> THEN Raise(InvalidItemNameError(name))
  ELSE IF ~FGtZero(price) THEN Raise(InvalidItemPriceError(price))
  ELSE Return(MkItem(name, price))

\* Item.__init__(name, price) for a text name and a float price
ItemInit(name, price) ==
  IF name = <<>> THEN Raise(InvalidItemNameError(name))
  ELSE IF ~FGtZero(price) THEN Raise(InvalidItemPriceError(price))
  ELSE Return(MkItem(name, Round2(price)))

\* str(n) of an int
IntText(n) == IF n < 0 THEN <<"-">> \o NatText(0 - n) ELSE NatText(n)

\* str(v) of a Python value that can be given as a price
PyText(v) ==
  CASE v.t = "str" -> v.v
    [] v.t = "int" -> IntText(v.v)
    [] v.t = "float" -> FloatRepr(v.v)
    [] OTHER -> <<"N", "o", "n", "e">>

\* Item(name, price) for arguments of any type: the isinstance tests, then
\* the rest of the constructor.  An int price is kept as the float of the
\* same value (Python compares and formats them alike here).
ItemNew(name, price) ==
  IF name.t # "str" THEN Raise(InvalidItemNameTypeError(name.t))
  ELSE IF name.v = <<>> THEN Raise(InvalidItemNameError(name.v))
  ELSE IF price.t \notin {"float", "int"}
    THEN Raise(InvalidItemPriceErrorOf(PyText(price)))
  ELSE IF price.t = "int"
    THEN IF price.v > 0 THEN Return(MkItem(name.v, Fin(1, 1000 * price.v)))
         ELSE Raise(InvalidItemPriceErrorOf(PyText(price)))
  ELSE ItemInit(name.v, price.v)

\* floor(log10(x)) of a positive magnitude in thousandths
OrderOfMills(m) ==
  IF m >= 1000 THEN Len(NatText(m \div 1000)) - 1 ELSE Len(NatText(m)) - 4

\* Item.get_order()
GetOrder(item) ==
  IF item.price.k = "inf" THEN Raise(OverflowError)
  ELSE IF item.price.k = "fin" /\ item.price.m = 0
    THEN Raise(ValueError("math domain error", <<>>))
  ELSE Return(OrderOfMills(item.price.m))

\* "${:0W.2f}".format(x) for a finite x >= 0
FormatPadded(a, width) ==
  <<"$">> \o Repeat("0", width - Len(FormatF2(a))) \o FormatF2(a)

\* Item.get_price_str(quantity, hide_price, order); quantity and order are
\* <<>> when omitted and <<n>> when given
GetPriceStr(item, quantity, hide_price, order) ==
  LET qty == IF quantity = <<>> THEN 1 ELSE quantity[1]
      total == Round2(FMul(item.price, qty))
      normal == GetOrder(item)
  IN IF normal.exc # "None" THEN normal
     ELSE LET normal_order == normal.val
              target_order == IF order = <<>> THEN normal_order ELSE order[1]
              min_digits == Max(normal_order + 1, target_order + 1)
          IN IF hide_price
               THEN Return(<<"$">> \o Repeat("?", min_digits)
                             \o <<".", "?", "?">>)
             ELSE Return(FormatPadded(total, min_digits + 3))

\* Item.get_list_item_str(quantity, leading_dash)
GetListItemStr(item, quantity, leading_dash) ==
  LET quantity_string ==
        IF quantity = <<>> THEN <<>>
        ELSE <<" ", "(">> \o NatText(quantity[1]) \o <<"x", ")">>
      dash == IF leading_dash THEN <<"-", " ">> ELSE <<>>
  IN dash \o item.name \o quantity_string

\* Item.__repr__()
ItemRepr(item) ==
  <<"I", "t", "e", "m", "(">> \o item.name \o <<",", " ">>
    \o FloatRepr(item.price) \o <<")">>

(***************************************************************************)
(* core/items.py: ItemPool.  The dict is the sequence of its entries in    *)
(* insertion order, each entry a key and the Item stored under it.         *)
(***************************************************************************)
Entry(key, item) == [key |-> key, item |-> item]

Keys(pool) == {pool[i].key : i \in 1..Len(pool)}

\* pool.items[key]
Lookup(pool, key) ==
  pool[CHOOSE i \in 1..Len(pool) : pool[i].key = key].item

\* bool(v) of a Python value is False
Falsy(v) ==
  \/ v.t = "NoneType"
  \/ v.t \in {"dict", "list", "str"} /\ v.v = <<>>
  \/ v.t = "int" /\ v.v = 0

\* ItemPool(items) for an argument of any type: the pool, or the error
ItemPoolInit(arg) ==
  LET its == IF Falsy(arg) THEN PyDict(<<>>) ELSE arg
  IN IF its.t # "dict" THEN Raise(InvalidItemPoolError)
     ELSE IF \E i \in 1..Len(its.v) :
               its.v[i][1].t # "str" \/ its.v[i][2].t # "Item"
       THEN Raise(InvalidItemPoolError)
     ELSE Return([i \in 1..Len(its.v) |-> Entry(its.v[i][1].v, its.v[i][2].v)])

\* ItemPool.get_size()
GetSize(pool) == Len(pool)

\* mutant of AddItem: no duplicate test, the entry is overwritten
AddItem_Overwrite(pool, item) ==
  IF item.name \in Keys(pool)
    THEN Return([i \in 1..Len(pool) |->
                   IF pool[i].key = item.name THEN Entry(item.name, item)
                   ELSE pool[i]])
  ELSE Return(Append(pool, Entry(item.name, item)))

\* ItemPool.add_item(item)
AddItem(pool, item) ==
  IF item.name \in Keys(pool) THEN Raise(DuplicateItemError)
  ELSE Return(Append(pool, Entry(item.name, item)))

\* ItemPool.add_item(item) for an argument of any type
AddItemAny(pool, arg) ==
  IF arg.t # "Item" THEN Raise(InvalidItemPoolError)
  ELSE AddItem(pool, arg.v)

\* mutant of RemoveItem: the name is matched as a prefix of the key
RemoveItem_Prefix(pool, item_name) ==
  IF \A i \in 1..Len(pool) : ~StartsWith(pool[i].key, item_name)
    THEN Raise(NonExistingItemError(item_name))
  ELSE Return(SelectSeq(pool, LAMBDA e : ~StartsWith(e.key, item_name)))

\* ItemPool.remove_item(item_name)
RemoveItem(pool, item_name) ==
  IF item_name \notin Keys(pool) THEN Raise(NonExistingItemError(item_name))
  ELSE Return(SelectSeq(pool, LAMBDA e : e.key # item_name))

\* mutant of SampleItems: the positions are drawn with replacement
SampleItems_WithReplacement(pool, sample_size) ==
  LET n == Min(sample_size, Len(pool))
  IN {[i \in 1..n |-> pool[f[i]].item] : f \in [1..n -> 1..Len(pool)]}

\* ItemPool.sample_items(sample_size): every list random.sample can return
SampleItems(pool, sample_size) ==
  LET n == Min(sample_size, Len(pool))
      picks == {f \in [1..n -> 1..Len(pool)] :
                  \A i, j \in 1..n : i # j => f[i] # f[j]}
  IN {[i \in 1..n |-> pool[f[i]].item] : f \in picks}

(***************************************************************************)
(* core/shoppinglist.py: ShoppingList.  The list is a sequence of          *)
(* <<item, quantity>> pairs.                                               *)
(***************************************************************************)
\* the quantities random.choices(range(1, 10), k) draws from, as explored
QtySample == {q \in 1..9 : q <= MaxQty}

RECURSIVE SumPrices(_)
SumPrices(list) ==
  IF list = <<>> THEN Fin(1, 0)
  ELSE FAdd(FMul(list[1][1].price, list[1][2]), SumPrices(Tail(list)))

\* mutant of GetTotalPrice: the quantities are left out of the sum
GetTotalPrice_UnitPrices(list) ==
  Round2(SumPrices([i \in 1..Len(list) |-> <<list[i][1], 1>>]))

\* ShoppingList.get_total_price()
GetTotalPrice(list) == Round2(SumPrices(list))

\* mutant of GetItemPrice: the quantity of the line is left out
GetItemPrice_UnitPrice(list, i) ==
  LET j == IF i < 0 THEN i + Len(list) ELSE i
  IN IF j < 0 \/ j >= Len(list)
       THEN Raise(Msg("IndexError", "list index out of range", <<>>))
     ELSE Return(Round2(list[j + 1][1].price))

\* ShoppingList.get_item_price(i), i a Python index (negative counts from
\* the end)
GetItemPrice(list, i) ==
  LET j == IF i < 0 THEN i + Len(list) ELSE i
  IN IF j < 0 \/ j >= Len(list)
       THEN Raise(Msg("IndexError", "list index out of range", <<>>))
     ELSE Return(Round2(FMul(list[j + 1][1].price, list[j + 1][2])))

\* mutant of Refresh: missing quantities are filled with 0
Refresh_PadZero(item_pool, size, quantities) ==
  LET sizes == IF size.t = "NoneType"
                 THEN {PyInt(n) : n \in 1..GetSize(item_pool)}
               ELSE {size}
      For(sz) ==
        IF sz.t # "int" \/ sz.v < 1 THEN {Raise(ValueError("", <<>>))}
        ELSE IF sz.v > GetSize(item_pool)
          THEN {Raise(InvalidShoppingListSizeError)}
        ELSE LET n == sz.v
                 given ==
                   IF quantities.t = "NoneType"
                     THEN {PyList([i \in 1..n |-> PyInt(f[i])]) :
                             f \in [1..n -> QtySample]}
                   ELSE {quantities}
                 Ints(qs) == [i \in 1..Len(qs.v) |-> qs.v[i].v]
                 Fit(qs) == IF Len(qs) < n
                              THEN qs \o [i \in 1..(n - Len(qs)) |-> 0]
                            ELSE Upto(qs, n)
                 Zip(its, qs) == [i \in 1..Len(its) |-> <<its[i], qs[i]>>]
             IN UNION {IF qs.t # "list" THEN {Raise(ValueError("", <<>>))}
                       ELSE IF \E i \in 1..Len(qs.v) :
                                 qs.v[i].t # "int" \/ qs.v[i].v < 1
                         THEN {Raise(ValueError("", <<>>))}
                       ELSE {Return(Zip(its, Fit(Ints(qs)))) :
                               its \in SampleItems(item_pool, n)} :
                       qs \in given}
  IN IF size.t = "NoneType" /\ GetSize(item_pool) = 0
       THEN {Raise(ValueError("empty range for randrange() (1, 1, 0)",
                              <<>>))}
     ELSE UNION {For(sz) : sz \in sizes}

\* ShoppingList.refresh(item_pool, size, quantities): the set of outcomes,
\* each a raised exception or the new list; size and quantities are Python
\* values of any type, PyNone when omitted
Refresh(item_pool, size, quantities) ==
  LET sizes == IF size.t = "NoneType"
                 THEN {PyInt(n) : n \in 1..GetSize(item_pool)}
               ELSE {size}
      For(sz) ==
        IF sz.t # "int" \/ sz.v < 1 THEN {Raise(ValueError("", <<>>))}
        ELSE IF sz.v > GetSize(item_pool)
          THEN {Raise(InvalidShoppingListSizeError)}
        ELSE LET n == sz.v
                 given ==
                   IF quantities.t = "NoneType"
                     THEN {PyList([i \in 1..n |-> PyInt(f[i])]) :
                             f \in [1..n -> QtySample]}
                   ELSE {quantities}
                 Ints(qs) == [i \in 1..Len(qs.v) |-> qs.v[i].v]
                 Fit(qs) == IF Len(qs) < n
                              THEN qs \o [i \in 1..(n - Len(qs)) |-> 1]
                            ELSE Upto(qs, n)
                 Zip(its, qs) == [i \in 1..Len(its) |-> <<its[i], qs[i]>>]
             IN UNION {IF qs.t # "list" THEN {Raise(ValueError("", <<>>))}
                       ELSE IF \E i \in 1..Len(qs.v) :
                                 qs.v[i].t # "int" \/ qs.v[i].v < 1
                         THEN {Raise(ValueError("", <<>>))}
                       ELSE {Return(Zip(its, Fit(Ints(qs)))) :
                               its \in SampleItems(item_pool, n)} :
                       qs \in given}
  IN IF size.t = "NoneType" /\ GetSize(item_pool) = 0
       THEN {Raise(ValueError("empty range for randrange() (1, 1, 0)",
                              <<>>))}
     ELSE UNION {For(sz) : sz \in sizes}

(***************************************************************************)
(* Rendering (AppCLI.show_items, AppCLI.show_list).                        *)
(***************************************************************************)
\* the characters of the model in code point order
CodePoints ==
  <<"\n", " ", "!", "\"", "$", "(", ")", "+", ",", "-", ".",
    "0", "1", "2", "3", "4", "5", "6", "7", "8", "9", ":", "?",
    "A", "B", "C", "D", "E", "F", "G", "H", "I", "J", "K", "L", "M",
    "N", "O", "P", "Q", "R", "S", "T", "U", "V", "W", "X", "Y", "Z",
    "a", "b", "c", "d", "e", "f", "g", "h", "i", "j", "k", "l", "m",
    "n", "o", "p", "q", "r", "s", "t", "u", "v", "w", "x", "y", "z">>

Ord(c) == CHOOSE i \in 1..Len(CodePoints) : CodePoints[i] = c

\* a < b on str
RECURSIVE TextLess(_, _)
TextLess(a, b) ==
  IF b = <<>> THEN FALSE
  ELSE IF a = <<>> THEN TRUE
  ELSE IF a[1] = b[1] THEN TextLess(Tail(a), Tail(b))
  ELSE Ord(a[1]) < Ord(b[1])

\* sorted(S) for a set of texts
RECURSIVE Sorted(_)
Sorted(S) ==
  IF S = {} THEN <<>>
  ELSE LET least == CHOOSE x \in S : \A y \in S \ {x} : TextLess(x, y)
       IN <<least>> \o Sorted(S \ {least})

\* max(...) of a non-empty sequence of integers
RECURSIVE MaxOf(_)
MaxOf(ns) ==
  IF Len(ns) = 1 THEN ns[1] ELSE Max(ns[1], MaxOf(Tail(ns)))

\* the first raised exception among results evaluated in order
FirstRaised(rs) ==
  rs[CHOOSE i \in 1..Len(rs) :
       rs[i].exc # "None" /\ \A j \in 1..(i - 1) : rs[j].exc = "None"]

AnyRaised(rs) == \E i \in 1..Len(rs) : rs[i].exc # "None"

RECURSIVE Concat(_)
Concat(texts) ==
  IF texts = <<>> THEN <<>> ELSE texts[1] \o Concat(Tail(texts))

EmptyMax == ValueError("max() arg is an empty sequence", <<>>)

Dots(padding) == <<".", ".", ".">> \o Repeat(".", padding)

\* AppCLI.show_items()
ShowItems(pool) ==
  LET orders == [i \in 1..Len(pool) |-> GetOrder(pool[i].item)]
  IN IF pool = <<>> THEN Raise(EmptyMax)
     ELSE IF AnyRaised(orders) THEN FirstRaised(orders)
     ELSE
       LET max_name_len ==
             MaxOf([i \in 1..Len(pool) |-> Len(pool[i].item.name)])
           max_order == MaxOf([i \in 1..Len(pool) |-> orders[i].val])
           names == Sorted(Keys(pool))
           Line(item_name) ==
             LET item == Lookup(pool, item_name)
                 name_string == GetListItemStr(item, <<>>, TRUE)
                 price_string ==
                   GetPriceStr(item, <<>>, FALSE, <<max_order>>).val
                 padding == max_name_len - Len(item.name)
             IN name_string \o <<" ">> \o Dots(padding) \o <<" ">>
                  \o price_string \o <<"\n">>
       IN Return(<<"I", "T", "E", "M", "S", "\n">>
                   \o Concat([i \in 1..Len(names) |-> Line(names[i])]))

TotalName == <<"T", "O", "T", "A", "L">>

\* AppCLI.show_list(mask_index); mask_index is <<>> for None, else <<i>>
ShowList(list, mask_index) ==
  LET total == ItemInit(TotalName, GetTotalPrice(list))
      orders == <<GetOrder(total.val)>>
                  \o [i \in 1..Len(list) |-> GetOrder(list[i][1])]
  IN IF list = <<>> THEN Raise(EmptyMax)
     ELSE IF total.exc # "None" THEN total
     ELSE IF AnyRaised(orders) THEN FirstRaised(orders)
     ELSE
       LET line_base_len ==
             Max(Len(TotalName) - 4,
                 MaxOf([i \in 1..Len(list) |-> Len(list[i][1].name)]))
           max_name ==
             MaxOf(<<Len(total.val.name)>>
                     \o [i \in 1..Len(list) |-> Len(list[i][1].name)])
           max_order == MaxOf([i \in 1..Len(orders) |-> orders[i].val])
           Line(i) ==
             LET item == list[i][1]
                 quantity == list[i][2]
                 hide_price == mask_index = <<i - 1>>
                 price_str ==
                   GetPriceStr(item, <<quantity>>, hide_price,
                               <<max_order>>).val
             IN GetListItemStr(item, <<quantity>>, TRUE) \o <<" ">>
                  \o Dots(line_base_len - Len(item.name)) \o <<" ">>
                  \o price_str \o <<"\n">>
           hide_total == mask_index = <<Len(list)>>
           total_line ==
             GetListItemStr(total.val, <<>>, FALSE) \o <<" ">>
               \o Dots(max_name - Len(total.val.name) + 7) \o <<" ">>
               \o GetPriceStr(total.val, <<>>, hide_total, <<max_order>>).val
           hline == Repeat("-", Len(total_line)) \o <<"\n">>
       IN Return(<<"S", "H", "O", "P", "P", "I", "N", "G", " ",
                   "L", "I", "S", "T", "\n">>
                   \o Concat([i \in 1..Len(list) |-> Line(i)])
                   \o hline \o total_line \o <<"\n">>)

\* mutant of LegacyShowList: the quantity column counts for 4 characters
LegacyShowList_ShortQuantity(list, mask_index) ==
  LET total == ItemInit(TotalName, GetTotalPrice(list))
      orders == <<GetOrder(total.val)>>
                  \o [i \in 1..Len(list) |-> GetOrder(list[i][1])]
  IN IF list = <<>> THEN Raise(EmptyMax)
     ELSE IF total.exc # "None" THEN total
     ELSE IF AnyRaised(orders) THEN FirstRaised(orders)
     ELSE
       LET line_base_len ==
             Max(Len(TotalName) - 4,
                 MaxOf([i \in 1..Len(list) |-> Len(list[i][1].name)]))
           \* the loop over the lines raises both maxima from the TOTAL's
           max_name ==
             MaxOf(<<Len(total.val.name)>>
                     \o [i \in 1..Len(list) |-> Len(list[i][1].name)])
           max_order == MaxOf([i \in 1..Len(orders) |-> orders[i].val])
           Line(i) ==
             LET item == list[i][1]
                 quantity == list[i][2]
                 hide_price == mask_index = <<i - 1>>
                 padding == line_base_len - Len(item.name)
                 name_string == GetListItemStr(item, <<quantity>>, TRUE)
                 price_string ==
                   GetPriceStr(item, <<quantity>>, hide_price,
                               <<max_order>>).val
             IN name_string \o <<" ">> \o Dots(padding) \o <<" ">>
                  \o price_string \o <<"\n">>
           hide_total == mask_index = <<Len(list)>>
           q_len == 4
           d_len == 2
           padding == max_name - Len(total.val.name) + q_len + d_len
           total_name_string == GetListItemStr(total.val, <<>>, FALSE)
           total_price_string ==
             GetPriceStr(total.val, <<>>, hide_total, <<max_order>>).val
           total_line ==
             total_name_string \o <<" ">> \o Dots(padding) \o <<" ">>
               \o total_price_string
           hline == Repeat("-", Len(total_line)) \o <<"\n">>
       IN Return(<<"S", "H", "O", "P", "P", "I", "N", "G", " ",
                   "L", "I", "S", "T", "\n">>
                   \o Concat([i \in 1..Len(list) |-> Line(i)])
                   \o hline \o total_line \o <<"\n">>)

\* the show_list of the application before the refactoring
\* (AppEngine.show_list of the single-file app_cli.py)
LegacyShowList(list, mask_index) ==
  LET total == ItemInit(TotalName, GetTotalPrice(list))
      orders == <<GetOrder(total.val)>>
                  \o [i \in 1..Len(list) |-> GetOrder(list[i][1])]
  IN IF list = <<>> THEN Raise(EmptyMax)
     ELSE IF total.exc # "None" THEN total
     ELSE IF AnyRaised(orders) THEN FirstRaised(orders)
     ELSE
       LET line_base_len ==
             Max(Len(TotalName) - 4,
                 MaxOf([i \in 1..Len(list) |-> Len(list[i][1].name)]))
           \* the loop over the lines raises both maxima from the TOTAL's
           max_name ==
             MaxOf(<<Len(total.val.name)>>
                     \o [i \in 1..Len(list) |-> Len(list[i][1].name)])
           max_order == MaxOf([i \in 1..Len(orders) |-> orders[i].val])
           Line(i) ==
             LET item == list[i][1]
                 quantity == list[i][2]
                 hide_price == mask_index = <<i - 1>>
                 padding == line_base_len - Len(item.name)
                 name_string == GetListItemStr(item, <<quantity>>, TRUE)
                 price_string ==
                   GetPriceStr(item, <<quantity>>, hide_price,
                               <<max_order>>).val
             IN name_string \o <<" ">> \o Dots(padding) \o <<" ">>
                  \o price_string \o <<"\n">>
           hide_total == mask_index = <<Len(list)>>
           q_len == 5
           d_len == 2
           padding == max_name - Len(total.val.name) + q_len + d_len
           total_name_string == GetListItemStr(total.val, <<>>, FALSE)
           total_price_string ==
             GetPriceStr(total.val, <<>>, hide_total, <<max_order>>).val
           total_line ==
             total_name_string \o <<" ">> \o Dots(padding) \o <<" ">>
               \o total_price_string
           hline == Repeat("-", Len(total_line)) \o <<"\n">>
       IN Return(<<"S", "H", "O", "P", "P", "I", "N", "G", " ",
                   "L", "I", "S", "T", "\n">>
                   \o Concat([i \in 1..Len(list) |-> Line(i)])
                   \o hline \o total_line \o <<"\n">>)

(***************************************************************************)
(* core/appengine.py: the command handlers.  Each yields the fields it     *)
(* assigns.                                                                *)
(***************************************************************************)
\* mutant of ProcessAnswerResult: the answer is compared without rounding
ProcessAnswerResult_NoRound(c, expected) ==
  LET parsed == ParseFloat(c)
      answer == parsed.val
  IN IF ~parsed.ok
       THEN [message |-> Str("The provided answer is not a valid number!",
                             <<>>),
             correct_answer |-> expected]
     ELSE IF FEq(answer, expected)
       THEN [message |-> Str("Correct!", <<>>), correct_answer |-> None]
     ELSE [message |-> Str("Not Correct! (Expected ${})\nYou answered ${}.",
                           <<FormatF2(expected), FormatF2(answer)>>),
           correct_answer |-> None]

\* mutant of ProcessAnswerResult: correct_answer is reset after the try
\* block, so also when the answer did not parse
ProcessAnswerResult_ClearAlways(c, expected) ==
  LET parsed == ParseFloat(c)
      answer == Round2(parsed.val)
  IN IF ~parsed.ok
       THEN [message |-> Str("The provided answer is not a valid number!",
                             <<>>),
             correct_answer |-> None]
     ELSE IF FEq(answer, expected)
       THEN [message |-> Str("Correct!", <<>>), correct_answer |-> None]
     ELSE [message |-> Str("Not Correct! (Expected ${})\nYou answered ${}.",
                           <<FormatF2(expected), FormatF2(answer)>>),
           correct_answer |-> None]

\* mutant of ProcessAnswerResult: a graded answer leaves the question open
ProcessAnswerResult_KeepsPending(c, expected) ==
  LET parsed == ParseFloat(c)
      answer == Round2(parsed.val)
  IN IF ~parsed.ok
       THEN [message |-> Str("The provided answer is not a valid number!",
                             <<>>),
             correct_answer |-> expected]
     ELSE IF FEq(answer, expected)
       THEN [message |-> Str("Correct!", <<>>), correct_answer |-> expected]
     ELSE [message |-> Str("Not Correct! (Expected ${})\nYou answered ${}.",
                           <<FormatF2(expected), FormatF2(answer)>>),
           correct_answer |-> expected]

\* AppEngine.process_answer(cmd) with self.correct_answer = expected
ProcessAnswerResult(c, expected) ==
  LET parsed == ParseFloat(c)
      answer == Round2(parsed.val)
  IN IF ~parsed.ok
       THEN [message |-> Str("The provided answer is not a valid number!",
                             <<>>),
             correct_answer |-> expected]
     ELSE IF FEq(answer, expected)
       THEN [message |-> Str("Correct!", <<>>), correct_answer |-> None]
     ELSE [message |-> Str("Not Correct! (Expected ${})\nYou answered ${}.",
                           <<FormatF2(expected), FormatF2(answer)>>),
           correct_answer |-> None]

\* mutant of ProcessAddItemResult: the duplicate test comes before the Item
\* is constructed
ProcessAddItemResult_DupFirst(c, pool) ==
  LET item_str == From(c, 4)
      item_tuple == Split(item_str)
      name == item_tuple[1]
      price == item_tuple[2]
      parsed == ParseFloat(price)
      item == ItemInit(name, parsed.val)
      added == AddItem(pool, item.val)
  IN IF Len(item_tuple) # 2
       THEN [message |->
               Str("Cannot add \"{}\".\nUsage: add <item_name>: <item_price>",
                   <<item_str>>),
             items |-> pool]
     ELSE IF ~parsed.ok
       THEN [message |-> ValueError("could not convert string to float: '{}'",
                                    <<price>>),
             items |-> pool]
     ELSE IF name \in Keys(pool)
       THEN [message |-> DuplicateItemError, items |-> pool]
     ELSE IF item.exc # "None" THEN [message |-> item.err, items |-> pool]
     ELSE [message |-> Str("{} added successfully.", <<ItemRepr(item.val)>>),
           items |-> added.val]

\* AppEngine.process_add_item(cmd) with self.items = pool
ProcessAddItemResult(c, pool) ==
  LET item_str == From(c, 4)
      item_tuple == Split(item_str)
      name == item_tuple[1]
      price == item_tuple[2]
      parsed == ParseFloat(price)
      item == ItemInit(name, parsed.val)
      added == AddItem(pool, item.val)
  IN IF Len(item_tuple) # 2
       THEN [message |->
               Str("Cannot add \"{}\".\nUsage: add <item_name>: <item_price>",
                   <<item_str>>),
             items |-> pool]
     ELSE IF ~parsed.ok
       THEN [message |-> ValueError("could not convert string to float: '{}'",
                                    <<price>>),
             items |-> pool]
     ELSE IF item.exc # "None" THEN [message |-> item.err, items |-> pool]
     ELSE IF added.exc # "None" THEN [message |-> added.err, items |-> pool]
     ELSE [message |-> Str("{} added successfully.", <<ItemRepr(item.val)>>),
           items |-> added.val]

\* AppEngine.process_del_item(cmd) with self.items = pool
ProcessDelItemResult(c, pool) ==
  LET item_name == From(c, 4)
      removed == RemoveItem(pool, item_name)
  IN IF removed.exc # "None" THEN [message |-> removed.err, items |-> pool]
     ELSE [message |-> Str("{} removed successfully.", <<item_name>>),
           items |-> removed.val]

(***************************************************************************)
(* app_cli.py: AppCLI.                                                     *)
(***************************************************************************)
\* AppCLI.process_show(cmd): the message, or the exception that escapes
ProcessShowResult(c, pool, list) ==
  LET what == From(c, 5)
      shown == IF what = <<"i", "t", "e", "m", "s">> THEN ShowItems(pool)
               ELSE ShowList(list, <<>>)
  IN IF what \in {<<"i", "t", "e", "m", "s">>, <<"l", "i", "s", "t">>}
       THEN IF shown.exc # "None" THEN shown
            ELSE Return(Str("{}", <<shown.val>>))
     ELSE Return(Str("Cannot show {}.\nUsage: show list|items", <<what>>))

\* AppCLI.process_ask(): one outcome per q that random.randint(0, len) can
\* return; each is the escaping exception or the fields assigned
ProcessAskResults(list) ==
  {LET shown == ShowList(list, <<q>>)
   IN IF shown.exc # "None"
        THEN [exc |-> shown.exc, message |-> NoMessage,
              correct_answer |-> None]
      ELSE [exc |-> "None", message |-> Str("{}", <<shown.val>>),
            correct_answer |->
              IF q < Len(list) THEN GetItemPrice(list, q).val
              ELSE GetTotalPrice(list)] :
   q \in 0..Len(list)}

\* mutant of Branch: q and quit are tested before the pending answer
Branch_QuitFirst(c, pending) ==
  IF c \in {<<"q">>, <<"q", "u", "i", "t">>} THEN "quit"
  ELSE IF pending # None THEN "answer"
  ELSE IF c \in {<<"a">>, <<"a", "s", "k">>} THEN "ask"
  ELSE IF c \in {<<"l">>, <<"l", "i", "s", "t">>} THEN "list"
  ELSE IF StartsWith(c, <<"s", "h", "o", "w">>) THEN "show"
  ELSE IF StartsWith(c, <<"a", "d", "d">>) THEN "add"
  ELSE IF StartsWith(c, <<"d", "e", "l">>) THEN "del"
  ELSE "invalid"

\* mutant of Branch: l and list are tested before the pending answer
Branch_ListFirst(c, pending) ==
  IF c \in {<<"l">>, <<"l", "i", "s", "t">>} THEN "list"
  ELSE IF pending # None THEN "answer"
  ELSE IF c \in {<<"q">>, <<"q", "u", "i", "t">>} THEN "quit"
  ELSE IF c \in {<<"a">>, <<"a", "s", "k">>} THEN "ask"
  ELSE IF StartsWith(c, <<"s", "h", "o", "w">>) THEN "show"
  ELSE IF StartsWith(c, <<"a", "d", "d">>) THEN "add"
  ELSE IF StartsWith(c, <<"d", "e", "l">>) THEN "del"
  ELSE "invalid"

\* the branch of the if/elif chain of AppCLI.execute_command(cmd)
Branch(c, pending) ==
  IF pending # None THEN "answer"
  ELSE IF c \in {<<"q">>, <<"q", "u", "i", "t">>} THEN "quit"
  ELSE IF c \in {<<"a">>, <<"a", "s", "k">>} THEN "ask"
  ELSE IF c \in {<<"l">>, <<"l", "i", "s", "t">>} THEN "list"
  ELSE IF StartsWith(c, <<"s", "h", "o", "w">>) THEN "show"
  ELSE IF StartsWith(c, <<"a", "d", "d">>) THEN "add"
  ELSE IF StartsWith(c, <<"d", "e", "l">>) THEN "del"
  ELSE "invalid"

(***************************************************************************)
(* The lines typed at the prompt.                                          *)
(***************************************************************************)
Pie == <<"p", "i", "e">>

Banana == <<"b", "a", "n", "a", "n", "a">>

ItemNames == {Pie, Banana}

AddCmd(name, price) == <<"a", "d", "d", " ">> \o name \o <<":", " ">> \o price

DelCmd(name) == <<"d", "e", "l", " ">> \o name

\* numerals and non-numerals typed as a price, and as an answer
PriceTexts ==
  {<<"1", ".", "5">>, <<"1", ".", "5", "0", "4">>, <<"0", ".", "0", "0", "4">>,
   <<"n", "a", "n">>, <<"-", "1", ".", "5">>, <<"x">>}

AnswerTexts ==
  {<<"1", ".", "5", "0", "4">>, <<"1", ".", "4", "9", "6">>, <<"3">>,
   <<" ", "3", ".", "0", " ">>, <<"i", "n", "f">>, <<"n", "a", "n">>, <<"x">>}

FixedCmds ==
  {<<"q">>, <<"q", "u", "i", "t">>, <<"a">>, <<"a", "s", "k">>,
   <<"l">>, <<"l", "i", "s", "t">>,
   <<"s", "h", "o", "w", " ", "i", "t", "e", "m", "s">>,
   <<"s", "h", "o", "w", " ", "l", "i", "s", "t">>,
   <<"s", "h", "o", "w", " ", "p", "i", "e">>,
   <<"s", "h", "o", "w">>,
   <<"s", "h", "o", "w", "x", "l", "i", "s", "t">>,
   <<>>, <<"h", "e", "l", "p">>}

AddCmds ==
  {AddCmd(n, p) : n \in ItemNames, p \in PriceTexts}
    \cup {AddCmd(<<>>, <<"1", ".", "5">>), AddCmd(<<>>, <<"x">>),
          AddCmd(Pie, <<"1", ":", " ", "2">>),
          <<"a", "d", "d">>, <<"a", "d", "d", " ">> \o Pie,
          <<"a", "d", "d", "x">> \o Pie \o <<":", " ", "1", ".", "5">>}

DelCmds ==
  {DelCmd(n) : n \in ItemNames}
    \cup {<<"d", "e", "l">>, DelCmd(<<"p", "i">>),
          <<"d", "e", "l", "x">> \o Pie}

Inputs == FixedCmds \cup AddCmds \cup DelCmds \cup AnswerTexts

(***************************************************************************)
(* The read loop AppCLI.run(): one action per branch of execute_command,   *)
(* each reading the line and running the handler to its end, and one       *)
(* action for the rest of the iteration (print, clear, test the flag).     *)
(***************************************************************************)
Init ==
  /\ items = <<>>
  /\ shopping_list = <<>>
  /\ continue_execution = TRUE
  /\ message = NoMessage
  /\ correct_answer = None
  /\ cmd = <<>>
  /\ pc = "input"
  /\ raised = "None"
  /\ call = NoCall
  /\ result = Return(None)

\* cmd = input(prompt) and the test that selects the branch
Reads(c, branch) ==
  /\ pc = "input"
  /\ Branch(c, correct_answer) = branch
  /\ cmd' = c
  /\ UNCHANGED <<call, result>>

\* execute_command returned
Returned == pc' = "print" /\ raised' = raised

\* an exception left execute_command, and with it run()
Escaped(exc) ==
  /\ pc' = "crashed"
  /\ raised' = exc
  /\ UNCHANGED <<items, shopping_list, continue_execution, message,
                 correct_answer>>

ProcessAnswer(c) ==
  /\ Reads(c, "answer")
  /\ LET r == ProcessAnswerResult(c, correct_answer)
     IN /\ message' = r.message
        /\ correct_answer' = r.correct_answer
  /\ Returned
  /\ UNCHANGED <<items, shopping_list, continue_execution>>

Quit(c) ==
  /\ Reads(c, "quit")
  /\ continue_execution' = FALSE
  /\ message' = Str("Have a nice day!", <<>>)
  /\ Returned
  /\ UNCHANGED <<items, shopping_list, correct_answer>>

ProcessAsk(c) ==
  /\ Reads(c, "ask")
  /\ \E r \in ProcessAskResults(shopping_list) :
       IF r.exc # "None" THEN Escaped(r.exc)
       ELSE /\ message' = r.message
            /\ correct_answer' = r.correct_answer
            /\ Returned
            /\ UNCHANGED <<items, shopping_list, continue_execution>>

RefreshList(c) ==
  /\ Reads(c, "list")
  /\ \E r \in Refresh(items, PyNone, PyNone) :
       IF r.exc # "None" THEN Escaped(r.exc)
       ELSE /\ shopping_list' = r.val
            /\ message' = Str("Shopping list with {} items has been created.",
                              <<NatText(Len(r.val))>>)
            /\ Returned
            /\ UNCHANGED <<items, continue_execution, correct_answer>>

ProcessShow(c) ==
  /\ Reads(c, "show")
  /\ LET r == ProcessShowResult(c, items, shopping_list)
     IN IF r.exc # "None" THEN Escaped(r.exc)
        ELSE /\ message' = r.val
             /\ Returned
             /\ UNCHANGED <<items, shopping_list, continue_execution,
                            correct_answer>>

ProcessAddItem(c) ==
  /\ Reads(c, "add")
  /\ LET r == ProcessAddItemResult(c, items)
     IN /\ message' = r.message
        /\ items' = r.items
  /\ Returned
  /\ UNCHANGED <<shopping_list, continue_execution, correct_answer>>

\* mutant of ProcessDelItem: the lines of the removed item leave the list
ProcessDelItem_DropsLines(c) ==
  /\ Reads(c, "del")
  /\ LET r == ProcessDelItemResult(c, items)
     IN /\ message' = r.message
        /\ items' = r.items
        /\ shopping_list' =
             SelectSeq(shopping_list,
                       LAMBDA line : \E k \in 1..Len(r.items) :
                                       r.items[k].item = line[1])
  /\ Returned
  /\ UNCHANGED <<continue_execution, correct_answer>>

ProcessDelItem(c) ==
  /\ Reads(c, "del")
  /\ LET r == ProcessDelItemResult(c, items)
     IN /\ message' = r.message
        /\ items' = r.items
  /\ Returned
  /\ UNCHANGED <<shopping_list, continue_execution, correct_answer>>

InvalidCommand(c) ==
  /\ Reads(c, "invalid")
  /\ message' = Str("\"{}\" is not a valid command.", <<c>>)
  /\ Returned
  /\ UNCHANGED <<items, shopping_list, continue_execution, correct_answer>>

\* mutant of PrintMessage: the flag is not tested, the loop reads on
PrintMessage_KeepsReading ==
  /\ pc = "print"
  /\ message' = NoMessage
  /\ cmd' = <<>>
  /\ pc' = "input"
  /\ UNCHANGED <<items, shopping_list, continue_execution, correct_answer,
                 raised, call, result>>

\* print the message, clear it, leave the loop when the flag is down; the
\* line of this iteration is not read again (cmd is assigned by the next
\* input() before any use), so it is dropped here
PrintMessage ==
  /\ pc = "print"
  /\ message' = NoMessage
  /\ cmd' = <<>>
  /\ pc' = IF continue_execution THEN "input" ELSE "done"
  /\ UNCHANGED <<items, shopping_list, continue_execution, correct_answer,
                 raised, call, result>>

Next ==
  \/ \E c \in Inputs : ProcessAnswer(c)
  \/ \E c \in Inputs : Quit(c)
  \/ \E c \in Inputs : ProcessAsk(c)
  \/ \E c \in Inputs : RefreshList(c)
  \/ \E c \in Inputs : ProcessShow(c)
  \/ \E c \in Inputs : ProcessAddItem(c)
  \/ \E c \in Inputs : ProcessDelItem(c)
  \/ \E c \in Inputs : InvalidCommand(c)
  \/ PrintMessage

Spec == Init /\ [][Next]_vars

(***************************************************************************)
(* Direct use of core/items.py: Item, as the unit tests make it.  Each     *)
(* action is one call; call and result record it.                          *)
(***************************************************************************)
\* the variables of the engine, which a direct call does not touch
engine == <<continue_execution, message, correct_answer, cmd, pc, raised>>

\* values given as the name of an Item
NameArgs == {PyStr(<<>>), PyStr(Pie), PyStr(Banana), PyInt(5), PyNone}

\* values given as the price of an Item
PriceArgs ==
  {PyFloat(Fin(1, m)) : m \in {3250, 9990, 50, 4, 5, 1504, 0, 1234500}}
    \cup {PyFloat(Fin(-1, 3250)), PyFloat(Inf(1)), PyFloat(NaN)}
    \cup {PyInt(3), PyInt(0), PyInt(-1), PyStr(<<"1", ".", "5">>), PyNone}

\* the Items that the constructor returns for these arguments
BuiltItems ==
  {ItemNew(a[1], a[2]).val :
     a \in {x \in NameArgs \X PriceArgs : ItemNew(x[1], x[2]).exc = "None"}}

\* optional quantity and order arguments of get_price_str
QuantityArgs == {<<>>} \cup {<<q>> : q \in QtySample}

OrderArgs == {<<>>, <<-2>>, <<0>>, <<3>>}

\* Item(name, price)
NewItem(name, price) ==
  /\ call' = Call("Item", <<name, price>>)
  /\ result' = ItemNew(name, price)
  /\ UNCHANGED <<items, shopping_list, engine>>

\* item.get_price_str(quantity, hide_price, order)
PriceStr(item, quantity, hide_price, order) ==
  /\ call' = Call("get_price_str", <<item, quantity, hide_price, order>>)
  /\ result' = GetPriceStr(item, quantity, hide_price, order)
  /\ UNCHANGED <<items, shopping_list, engine>>

ItemNext ==
  \/ \E name \in NameArgs, price \in PriceArgs : NewItem(name, price)
  \/ \E item \in BuiltItems, quantity \in QuantityArgs,
        hide_price \in BOOLEAN, order \in OrderArgs :
       PriceStr(item, quantity, hide_price, order)

ItemSpec == Init /\ [][ItemNext]_vars

(***************************************************************************)
(* Direct use of core/items.py: ItemPool.  items is the pool under test;   *)
(* a constructor that raises leaves the earlier pool in place.             *)
(***************************************************************************)
\* the Items put in pools by direct calls
Pie325 == MkItem(Pie, Fin(1, 3250))

Pie150 == MkItem(Pie, Fin(1, 1500))

Banana999 == MkItem(Banana, Fin(1, 9990))

Fig == <<"f", "i", "g">>

Fig005 == MkItem(Fig, Fin(1, 50))

\* the Item that Item("pie", 0.004) returns
PieFree == ItemNew(PyStr(Pie), PyFloat(Fin(1, 4))).val

\* the Item that Item("pie", float("inf")) returns
PieInf == ItemNew(PyStr(Pie), PyFloat(Inf(1))).val

PoolItems == {Pie325, Pie150, Banana999}

\* arguments given to ItemPool(): none, dicts and values that are no dict
PoolArgs ==
  {PyNone, PyDict(<<>>), PyList(<<>>),
   PyList(<<PyStr(<<"n", "o", "t">>), PyStr(<<"a">>)>>),
   PyDict(<< <<PyStr(Pie), PyItem(Pie325)>> >>),
   PyDict(<< <<PyStr(Pie), PyItem(Pie325)>>,
             <<PyStr(Banana), PyItem(Banana999)>> >>),
   PyDict(<< <<PyStr(<<>>), PyItem(Pie325)>> >>),
   PyDict(<< <<PyInt(123), PyItem(Pie325)>> >>),
   PyDict(<< <<PyStr(Pie), PyStr(<<"n", "o", "t">>)>> >>),
   PyDict(<< <<PyStr(Banana), PyItem(Pie325)>> >>),
   PyDict(<< <<PyStr(Pie), PyItem(Pie325)>>,
             <<PyStr(Banana), PyItem(Pie325)>> >>),
   PyDict(<< <<PyStr(Pie), PyItem(PieFree)>>,
             <<PyStr(Banana), PyItem(Banana999)>> >>),
   PyDict(<< <<PyStr(Pie), PyItem(PieInf)>> >>),
   PyDict(<< <<PyStr(Banana), PyItem(Banana999)>>,
             <<PyStr(Fig), PyItem(Fig005)>> >>)}

\* arguments given to add_item
AddArgs == {PyItem(i) : i \in PoolItems} \cup {PyStr(<<"n", "o", "t">>)}

\* names given to remove_item
RemoveArgs == ItemNames \cup {<<>>}

\* sample sizes asked of sample_items
MaxSample == 3

SampleArgs == 0..MaxSample

\* ItemPool(arg)
NewPool(arg) ==
  /\ call' = Call("ItemPool", <<arg>>)
  /\ result' = ItemPoolInit(arg)
  /\ items' = IF result'.exc = "None" THEN result'.val ELSE items
  /\ UNCHANGED <<shopping_list, engine>>

\* pool.add_item(arg)
PoolAdd(arg) ==
  /\ call' = Call("add_item", <<arg>>)
  /\ LET r == AddItemAny(items, arg)
     IN /\ result' = IF r.exc = "None" THEN Return(None) ELSE r
        /\ items' = IF r.exc = "None" THEN r.val ELSE items
  /\ UNCHANGED <<shopping_list, engine>>

\* pool.remove_item(item_name)
PoolRemove(item_name) ==
  /\ call' = Call("remove_item", <<item_name>>)
  /\ LET r == RemoveItem(items, item_name)
     IN /\ result' = IF r.exc = "None" THEN Return(None) ELSE r
        /\ items' = IF r.exc = "None" THEN r.val ELSE items
  /\ UNCHANGED <<shopping_list, engine>>

\* pool.sample_items(sample_size)
PoolSample(sample_size) ==
  /\ call' = Call("sample_items", <<sample_size>>)
  /\ \E s \in SampleItems(items, sample_size) : result' = Return(s)
  /\ UNCHANGED <<items, shopping_list, engine>>

PoolNext ==
  \/ \E arg \in PoolArgs : NewPool(arg)
  \/ \E arg \in AddArgs : PoolAdd(arg)
  \/ \E item_name \in RemoveArgs : PoolRemove(item_name)
  \/ \E sample_size \in SampleArgs : PoolSample(sample_size)

PoolSpec == Init /\ [][PoolNext]_vars

(***************************************************************************)
(* Direct use of core/shoppinglist.py and of AppCLI.show_list: a list      *)
(* built by ShoppingList() over a pool built by ItemPool(mapping).         *)
(***************************************************************************)
\* the pools that ItemPool() returns for the arguments above
BuiltPools ==
  {ItemPoolInit(a).val : a \in {x \in PoolArgs : ItemPoolInit(x).exc = "None"}}

\* list indexes and mask indexes are explored from -MaxIndex to MaxIndex
MaxIndex == 3

\* values given as the size of a refresh
SizeArgs ==
  {PyNone, PyStr(<<"t", "h", "r", "e", "e">>)}
    \cup {PyInt(n) : n \in {0, 2, 3, 5}}

\* values given as the quantities of a refresh
QuantitiesArgs ==
  {PyNone, PyStr(<<"n", "o", "t">>), PyList(<<PyInt(2)>>),
   PyList(<<PyInt(2), PyInt(3), PyInt(4), PyInt(5)>>),
   PyList(<<PyInt(1), PyInt(0), PyInt(2)>>),
   PyList(<<PyInt(1), PyStr(<<"a">>), PyInt(2)>>)}

IndexArgs == (0 - MaxIndex)..MaxIndex

MaskArgs == {<<>>} \cup {<<i>> : i \in IndexArgs}

\* ShoppingList() and a pool
ListInit ==
  /\ items \in BuiltPools
  /\ shopping_list = <<>>
  /\ continue_execution = TRUE
  /\ message = NoMessage
  /\ correct_answer = None
  /\ cmd = <<>>
  /\ pc = "input"
  /\ raised = "None"
  /\ call = NoCall
  /\ result = Return(None)

\* mutant of ListRefresh: the list is emptied before the arguments are tested
ListRefresh_ClearsFirst(size, quantities) ==
  /\ call' = Call("refresh", <<size, quantities>>)
  /\ \E r \in Refresh(items, size, quantities) :
       /\ result' = IF r.exc = "None" THEN Return(None) ELSE r
       /\ shopping_list' = IF r.exc = "None" THEN r.val ELSE <<>>
  /\ UNCHANGED <<items, engine>>

\* shopping_list.refresh(item_pool, size, quantities)
ListRefresh(size, quantities) ==
  /\ call' = Call("refresh", <<size, quantities>>)
  /\ \E r \in Refresh(items, size, quantities) :
       /\ result' = IF r.exc = "None" THEN Return(None) ELSE r
       /\ shopping_list' = IF r.exc = "None" THEN r.val ELSE shopping_list
  /\ UNCHANGED <<items, engine>>

\* shopping_list.get_total_price()
ListTotalPrice ==
  /\ call' = Call("get_total_price", <<>>)
  /\ result' = Return(GetTotalPrice(shopping_list))
  /\ UNCHANGED <<items, shopping_list, engine>>

\* shopping_list.get_item_price(i)
ListItemPrice(i) ==
  /\ call' = Call("get_item_price", <<i>>)
  /\ result' = GetItemPrice(shopping_list, i)
  /\ UNCHANGED <<items, shopping_list, engine>>

\* show_list(mask_index)
ListShow(mask_index) ==
  /\ call' = Call("show_list", <<mask_index>>)
  /\ result' = ShowList(shopping_list, mask_index)
  /\ UNCHANGED <<items, shopping_list, engine>>

\* the same call on the renderer before the refactoring
ListShowLegacy(mask_index) ==
  /\ call' = Call("legacy_show_list", <<mask_index>>)
  /\ result' = LegacyShowList(shopping_list, mask_index)
  /\ UNCHANGED <<items, shopping_list, engine>>

ListNext ==
  \/ \E size \in SizeArgs, quantities \in QuantitiesArgs :
       ListRefresh(size, quantities)
  \/ ListTotalPrice
  \/ \E i \in IndexArgs : ListItemPrice(i)
  \/ \E mask_index \in MaskArgs : ListShow(mask_index)
  \/ \E mask_index \in MaskArgs : ListShowLegacy(mask_index)
  \/ \E sample_size \in SampleArgs : PoolSample(sample_size)

ListSpec == ListInit /\ [][ListNext]_vars

(***************************************************************************)
(* Properties.  A step of execute_command is a step that leaves            *)
(* pc = "input"; cmd' is the line it read, unprimed variables are the      *)
(* engine before the line and primed variables the engine after it.        *)
(***************************************************************************)
Executes == pc = "input" /\ pc' # "input"

Idle == correct_answer = None

AwaitingAnswer == correct_answer # None

\* r is x rounded to 2 decimals: a whole number of cents nearest to x
IsRound2Of(x, r) ==
  IF x.k = "fin"
    THEN r.k = "fin" /\ r.s = x.s /\ r.m % 10 = 0 /\ (r.m - x.m) \in -5..5
  ELSE r = x

\* the amounts with 2 decimals that x can round to
Round2Candidates(x) ==
  IF x.k = "fin"
    THEN {r \in {Fin(x.s, x.m - (x.m % 10)), Fin(x.s, x.m - (x.m % 10) + 10)} :
            IsRound2Of(x, r)}
  ELSE {x}

CorrectMsg == Str("Correct!", <<>>)

NotANumberMsg == Str("The provided answer is not a valid number!", <<>>)

\* C1: in AwaitingAnswer an input that parses as a number is rounded to 2
\* decimals; the message is "Correct!" exactly when the rounded value equals
\* pendingAnswer, otherwise it names the expected and the given amount (both
\* can be read back from it); pendingAnswer is cleared either way, so the
\* next input is dispatched as a command.
C1_ParsedAnswerIsGraded ==
  [][(Executes /\ AwaitingAnswer /\ ParseFloat(cmd').ok) =>
       /\ pc' = "print"
       /\ correct_answer' = None
       /\ \A c \in Inputs : Branch(c, correct_answer') # "answer"
       /\ \E rounded \in Round2Candidates(ParseFloat(cmd').val) :
            /\ (message' = CorrectMsg) <=> FEq(rounded, correct_answer)
            /\ message' # CorrectMsg =>
                 /\ message'.type = "str"
                 /\ Len(message'.args) = 2
                 /\ ParseFloat(message'.args[1]).val = correct_answer
                 /\ ParseFloat(message'.args[2]).val = rounded]_vars

\* C1 witness: the answer 1.504 was graded "Correct!" against 1.50
C1_Witness ==
  /\ pc = "print"
  /\ cmd = <<"1", ".", "5", "0", "4">>
  /\ message = CorrectMsg
  /\ correct_answer = None

\* C2: in AwaitingAnswer an input that does not parse as a number gives the
\* not-a-valid-number message and leaves pendingAnswer as it was, so the
\* next input is again taken as an answer.
C2_BadAnswerKeepsPending ==
  [][(Executes /\ AwaitingAnswer /\ ~ParseFloat(cmd').ok) =>
       /\ pc' = "print"
       /\ message' = NotANumberMsg
       /\ correct_answer' = correct_answer
       /\ \A c \in Inputs : Branch(c, correct_answer') = "answer"]_vars

\* C2 witness: a non-numeric answer was rejected and the quiz is still open
C2_Witness ==
  /\ pc = "print"
  /\ cmd = <<"x">>
  /\ message = NotANumberMsg
  /\ correct_answer # None

\* C3: while pendingAnswer is set every input, command-like or not, is only
\* graded as an answer: pool, list and running flag are unchanged and
\* pendingAnswer is kept or cleared, never chosen anew.
C3_AllInputIsAnswerWhileAwaiting ==
  [][(Executes /\ AwaitingAnswer) =>
       /\ pc' = "print"
       /\ items' = items
       /\ shopping_list' = shopping_list
       /\ continue_execution' = continue_execution
       /\ correct_answer' \in {correct_answer, None}
       /\ message'.fmt \in {CorrectMsg.fmt, NotANumberMsg.fmt,
                            "Not Correct! (Expected ${})\nYou answered ${}."}]_vars

\* C3 witness: q typed during a quiz did not stop the loop
C3_Witness ==
  /\ pc = "print"
  /\ cmd = <<"q">>
  /\ correct_answer # None
  /\ continue_execution
  /\ message = NotANumberMsg

AskCmds == {<<"a">>, <<"a", "s", "k">>}

\* C4: from Idle with a list of at least one line, a or ask picks an index q
\* in 0..length, shows the list with line q masked, sets pendingAnswer to
\* linePrice(q) (totalPrice() for q = length), leaves pool and list alone
\* and puts the engine in AwaitingAnswer.
C4_AskStartsQuiz ==
  [][(Executes /\ Idle /\ Len(shopping_list) >= 1 /\ cmd' \in AskCmds) =>
       /\ pc' = "print"
       /\ items' = items
       /\ shopping_list' = shopping_list
       /\ correct_answer' # None
       /\ \E q \in 0..Len(shopping_list) :
            /\ message' = Str("{}", <<ShowList(shopping_list, <<q>>).val>>)
            /\ correct_answer' =
                 IF q < Len(shopping_list)
                   THEN GetItemPrice(shopping_list, q).val
                 ELSE GetTotalPrice(shopping_list)]_vars

\* C5: every input in every reachable state makes execute_command return
\* with the message set; no error escapes, and the loop ends only after a
\* quit accepted in Idle.
C5_NoErrorEscapes ==
  /\ pc # "crashed"
  /\ raised = "None"
  /\ pc = "print" => message # NoMessage
  /\ pc = "done" => ~continue_execution

\* C6: after every command the message field holds rendered text, never an
\* error object.
C6_MessageIsText == pc = "print" => message.type = "str"

\* the add branch of the dispatcher was taken for the line just read
AddStep == Executes /\ Branch(cmd', correct_answer) = "add"

UsageMsg(payload) ==
  Str("Cannot add \"{}\".\nUsage: add <item_name>: <item_price>", <<payload>>)

AddedFmt == "{} added successfully."

\* C7 as stated: a failing add leaves pool and Idle state alone, and each
\* cause gives its own error whenever it is present: wrong number of parts
\* the usage text, empty name the invalid-name error, unparsable price the
\* ValueError, non-positive price the invalid-price error, name already in
\* the pool the duplicate error.
C7_EachCauseGivesItsError ==
  [][AddStep =>
       LET payload == From(cmd', 4)
           parts == Split(payload)
           parsed == ParseFloat(parts[2])
       IN /\ pc' = "print"
          /\ correct_answer' = None
          /\ message'.fmt # AddedFmt => items' = items
          /\ Len(parts) # 2 => message' = UsageMsg(payload)
          /\ Len(parts) = 2 =>
               /\ parts[1] = <<>> => message'.type = "InvalidItemNameError"
               /\ ~parsed.ok => message'.type = "ValueError"
               /\ (parsed.ok /\ ~FGtZero(parsed.val)) =>
                    message'.type = "InvalidItemPriceError"
               /\ parts[1] \in Keys(items) =>
                    message'.type = "DuplicateItemError"]_vars

\* C7 amended: a failing add leaves pool and Idle state alone and reports
\* the first cause that applies, in this order: wrong number of parts (usage
\* text), unparsable price (ValueError), empty name (invalid-name error),
\* non-positive price (invalid-price error), name already in the pool
\* (duplicate error).
C7_FirstCauseGivesItsError ==
  [][AddStep =>
       LET payload == From(cmd', 4)
           parts == Split(payload)
           parsed == ParseFloat(parts[2])
       IN /\ pc' = "print"
          /\ correct_answer' = None
          /\ message'.fmt # AddedFmt => items' = items
          /\ IF Len(parts) # 2 THEN message' = UsageMsg(payload)
             ELSE IF ~parsed.ok THEN message'.type = "ValueError"
             ELSE IF parts[1] = <<>>
               THEN message'.type = "InvalidItemNameError"
             ELSE IF ~FGtZero(parsed.val)
               THEN message'.type = "InvalidItemPriceError"
             ELSE IF parts[1] \in Keys(items)
               THEN message'.type = "DuplicateItemError"
             ELSE message'.fmt = AddedFmt]_vars

\* C7 witness: a non-positive price for a name already in the pool was
\* reported as an invalid price, and the pool entry is still there
C7_Witness ==
  /\ pc = "print"
  /\ cmd = AddCmd(Pie, <<"-", "1", ".", "5">>)
  /\ Pie \in Keys(items)
  /\ message.type = "InvalidItemPriceError"

\* C8: "add NAME: PRICE" with NAME non-empty and not in the pool and PRICE
\* parsing to a positive number adds exactly one entry, keyed NAME, holding
\* an Item named NAME priced PRICE rounded to 2 decimals; the other entries,
\* the list, pendingAnswer and the running flag are unchanged and the
\* message confirms the addition.
C8_AddInsertsOneEntry ==
  [][(AddStep /\ StartsWith(cmd', <<"a", "d", "d", " ">>)
        /\ Len(Split(From(cmd', 4))) = 2
        /\ Split(From(cmd', 4))[1] # <<>>
        /\ Split(From(cmd', 4))[1] \notin Keys(items)
        /\ ParseFloat(Split(From(cmd', 4))[2]).ok
        /\ FGtZero(ParseFloat(Split(From(cmd', 4))[2]).val)) =>
       LET name == Split(From(cmd', 4))[1]
           price == ParseFloat(Split(From(cmd', 4))[2]).val
           last == items'[Len(items')]
       IN /\ pc' = "print"
          /\ Len(items') = Len(items) + 1
          /\ \A i \in 1..Len(items) : items'[i] = items[i]
          /\ last.key = name
          /\ last.item.name = name
          /\ IsRound2Of(price, last.item.price)
          /\ shopping_list' = shopping_list
          /\ correct_answer' = correct_answer
          /\ continue_execution' = continue_execution
          /\ message'.type = "str"
          /\ message'.fmt = AddedFmt]_vars

\* C8 witness: banana at 1.504 was added next to an existing entry and is
\* stored at 1.50
C8_Witness ==
  /\ pc = "print"
  /\ cmd = AddCmd(Banana, <<"1", ".", "5", "0", "4">>)
  /\ Len(items) = 2
  /\ items[1].key = Pie
  /\ items[2] = Entry(Banana, MkItem(Banana, Fin(1, 1500)))
  /\ message.fmt = AddedFmt

\* items offered to add_item in C9
CandidateItems ==
  {MkItem(n, p) : n \in ItemNames \cup {<<"p", "i">>},
                  p \in {Fin(1, 1500), Fin(1, 250)}}

\* C9: on every pool, add then remove of an absent name gives the pool back
\* exactly, and add of a present name fails with the duplicate error; an add
\* command that meets a duplicate leaves the pool, stored price included,
\* as it was.
C9_AddThenRemoveRestores ==
  /\ [](\A it \in CandidateItems :
          IF it.name \notin Keys(items)
            THEN LET added == AddItem(items, it)
                 IN /\ added.exc = "None"
                    /\ Len(added.val) = Len(items) + 1
                    /\ it.name \in Keys(added.val)
                    /\ RemoveItem(added.val, it.name) = Return(items)
          ELSE AddItem(items, it).exc = "DuplicateItemError")
  /\ [][(AddStep /\ message'.type = "DuplicateItemError") =>
          items' = items]_vars
  /\ [][(AddStep /\ Len(Split(From(cmd', 4))) = 2
           /\ Split(From(cmd', 4))[1] \in Keys(items)) => items' = items]_vars

\* C9 witness: banana was removed again from a pool that holds pie
C9_Witness ==
  /\ pc = "print"
  /\ cmd = DelCmd(Banana)
  /\ message = Str("{} removed successfully.", <<Banana>>)
  /\ Keys(items) = {Pie}

DelStep == Executes /\ Branch(cmd', correct_answer) = "del"

\* C10: del removes exactly the entry whose key equals the given name and
\* leaves the others, in their order, as they were; for an absent name the
\* message is the not-found error and the pool is unchanged.
C10_DelRemovesExactlyTheName ==
  [][DelStep =>
       LET name == From(cmd', 4)
       IN /\ pc' = "print"
          /\ IF name \in Keys(items)
               THEN /\ Keys(items') = Keys(items) \ {name}
                    /\ Len(items') = Len(items) - 1
                    /\ \A k \in Keys(items') :
                         Lookup(items', k) = Lookup(items, k)
                    /\ message' = Str("{} removed successfully.", <<name>>)
             ELSE /\ message' = NonExistingItemError(name)
                  /\ items' = items]_vars

\* C10 witness: pie was deleted and banana is still in the pool
C10_Witness ==
  /\ pc = "print"
  /\ cmd = DelCmd(Pie)
  /\ message = Str("{} removed successfully.", <<Pie>>)
  /\ Keys(items) = {Banana}

(***************************************************************************)
(* Properties of Item (specification ItemSpec).                            *)
(***************************************************************************)
\* the float value of a numeric argument
NumberOf(price) ==
  IF price.t = "int"
    THEN Fin(IF price.v < 0 THEN -1 ELSE 1,
             1000 * (IF price.v < 0 THEN 0 - price.v ELSE price.v))
  ELSE price.v

IsText(v) == v.t = "str"

IsNumber(v) == v.t \in {"float", "int"}

\* C11: whenever Item(name, price) returns, the stored price is the given
\* price rounded to 2 decimals and is > 0 and the name is not empty; and
\* whenever the name is empty or not a text, or the price is not a number or
\* is not > 0, the call raises InvalidItemNameError or InvalidItemPriceError.
C11_ItemIsValidOrRejected ==
  call.op = "Item" =>
    LET name == call.args[1]
        price == call.args[2]
        bad_name == ~IsText(name) \/ name.v = <<>>
        bad_price == ~IsNumber(price) \/ ~FGtZero(NumberOf(price))
    IN /\ result.exc = "None" =>
            /\ IsText(name) /\ IsNumber(price)
            /\ result.val.name = name.v /\ result.val.name # <<>>
            /\ IsRound2Of(NumberOf(price), result.val.price)
            /\ FGtZero(result.val.price)
       /\ bad_name \/ bad_price =>
            result.exc \in {"InvalidItemNameError", "InvalidItemPriceError"}

\* C12: whenever get_price_str is called with hide_price=True, it returns a
\* text as long as the one it returns with hide_price=False for the same
\* item, quantity and order.
C12_HiddenHasSameLength ==
  call.op = "get_price_str" /\ call.args[3] =>
    LET shown == GetPriceStr(call.args[1], call.args[2], FALSE, call.args[4])
    IN /\ result.exc = "None" /\ shown.exc = "None"
       /\ Len(result.val) = Len(shown.val)

(***************************************************************************)
(* Properties of ItemPool (specification PoolSpec).                        *)
(***************************************************************************)
\* C13: whenever ItemPool(mapping) is called with a dict, it returns only
\* if every key is a non-empty text and every value an Item, and raises
\* InvalidItemPoolError otherwise.
C13_PoolRejectsBadMapping ==
  call.op = "ItemPool" /\ call.args[1].t = "dict" =>
    LET pairs == call.args[1].v
        good == \A i \in 1..Len(pairs) :
                  /\ IsText(pairs[i][1]) /\ pairs[i][1].v # <<>>
                  /\ pairs[i][2].t = "Item"
    IN IF good THEN result.exc = "None"
       ELSE result.exc = "InvalidItemPoolError"

\* C14: in every pool reached by ItemPool(), add_item and remove_item, no
\* two entries hold Items of the same name and every key is the name of the
\* Item stored under it.
C14_KeysAreUniqueNames ==
  /\ \A i, j \in 1..Len(items) :
       i # j => items[i].item.name # items[j].item.name
  /\ \A i \in 1..Len(items) : items[i].key = items[i].item.name

(***************************************************************************)
(* Properties of ShoppingList and show_list (specification ListSpec).      *)
(***************************************************************************)
\* a step that is a call of refresh
RefreshStep == call'.op = "refresh"

\* the Items of the pool
PoolItemsOf(pool) == {pool[k].item : k \in 1..Len(pool)}

\* C15: whenever refresh(pool, size, quantities) returns, the list has
\* exactly size lines (between 1 and the pool size when size is omitted),
\* line i carries quantities[i] when there is one and 1 otherwise (so that
\* quantities past size are dropped), every quantity is >= 1 (1 to 9 when
\* quantities is omitted), and every line holds an Item of the pool.
C15_RefreshFitsQuantities ==
  [][RefreshStep /\ result'.exc = "None" =>
       LET size == call'.args[1]
           quantities == call'.args[2]
           n == Len(shopping_list')
       IN /\ size.t = "int" => n = size.v
          /\ size.t = "NoneType" => n \in 1..GetSize(items)
          /\ \A i \in 1..n :
               /\ shopping_list'[i][2] >= 1
               /\ shopping_list'[i][1] \in PoolItemsOf(items)
               /\ quantities.t = "list" =>
                    shopping_list'[i][2] =
                      IF i <= Len(quantities.v) THEN quantities.v[i].v ELSE 1
               /\ quantities.t = "NoneType" => shopping_list'[i][2] \in 1..9
  ]_vars

\* refresh(pool, size=2, quantities=[2]) has returned and the list has two
\* lines with quantities 2, 1
C15_Witness ==
  /\ call.op = "refresh"
  /\ call.args[1] = PyInt(2) /\ call.args[2] = PyList(<<PyInt(2)>>)
  /\ result.exc = "None"
  /\ Len(shopping_list) = 2
  /\ shopping_list[1][2] = 2 /\ shopping_list[2][2] = 1

\* the size argument is an integer greater than the pool size
Oversized(size, pool) == size.t = "int" /\ size.v > GetSize(pool)

\* the size argument is given and is not an integer >= 1
BadSize(size) == size.t # "NoneType" /\ (size.t # "int" \/ size.v < 1)

\* the quantities argument is given and is not a list of integers >= 1
BadQuantities(quantities) ==
  /\ quantities.t # "NoneType"
  /\ \/ quantities.t # "list"
     \/ \E i \in 1..Len(quantities.v) :
          quantities.v[i].t # "int" \/ quantities.v[i].v < 1

\* C16 as stated: whenever refresh raises, the list is as before the call;
\* a size greater than the pool size raises InvalidShoppingListSizeError, a
\* size that is not a positive integer raises ValueError, and quantities
\* that are not a list of positive integers raise ValueError.
C16_EachCauseRaisesItsError ==
  [][RefreshStep =>
       LET size == call'.args[1]
           quantities == call'.args[2]
       IN /\ result'.exc # "None" => shopping_list' = shopping_list
          /\ Oversized(size, items) =>
               result'.exc = "InvalidShoppingListSizeError"
          /\ BadSize(size) => result'.exc = "ValueError"
          /\ BadQuantities(quantities) => result'.exc = "ValueError"
  ]_vars

\* C16 as the code has it: whenever refresh raises, the list is as before
\* the call; a size greater than the pool size raises
\* InvalidShoppingListSizeError, a size that is not a positive integer
\* raises ValueError, and quantities that are not a list of positive
\* integers raise ValueError unless the size is greater than the pool size
\* (the size is tested first).
C16_FailingRefreshKeepsList ==
  [][RefreshStep =>
       LET size == call'.args[1]
           quantities == call'.args[2]
       IN /\ result'.exc # "None" => shopping_list' = shopping_list
          /\ Oversized(size, items) =>
               result'.exc = "InvalidShoppingListSizeError"
          /\ BadSize(size) => result'.exc = "ValueError"
          /\ BadQuantities(quantities) /\ ~Oversized(size, items) =>
               result'.exc = "ValueError"
  ]_vars

\* refresh has raised for invalid quantities on a list that has lines
C16_Witness ==
  /\ call.op = "refresh"
  /\ BadQuantities(call.args[2]) /\ ~Oversized(call.args[1], items)
  /\ result.exc = "ValueError"
  /\ Len(shopping_list) = 2

\* the elements of a sequence are pairwise different
Distinct(seq) == \A i, j \in 1..Len(seq) : i # j => seq[i] # seq[j]

\* C17: whenever sample_items(n) is called, it returns min(n, pool size)
\* Items, pairwise different and each one held by the pool, and the pool is
\* as before; and whenever refresh returns, the lines of the list hold
\* pairwise different Items, each one held by the pool.
C17_SampleIsDistinctSubset ==
  [][/\ call'.op = "sample_items" =>
          /\ result'.exc = "None"
          /\ Len(result'.val) = Min(call'.args[1], GetSize(items))
          /\ Distinct(result'.val)
          /\ \A i \in 1..Len(result'.val) :
               result'.val[i] \in PoolItemsOf(items)
          /\ items' = items
     /\ RefreshStep /\ result'.exc = "None" =>
          /\ Distinct([i \in 1..Len(shopping_list') |-> shopping_list'[i][1]])
          /\ \A i \in 1..Len(shopping_list') :
               shopping_list'[i][1] \in PoolItemsOf(items)
          /\ items' = items
  ]_vars

\* the sum of get_item_price(i) for i in range(n)
RECURSIVE SumLinePrices(_, _)
SumLinePrices(list, n) ==
  IF n = 0 THEN Fin(1, 0)
  ELSE FAdd(SumLinePrices(list, n - 1), GetItemPrice(list, n - 1).val)

\* C18: whenever get_total_price() is called, it returns the sum of
\* get_item_price(i) over the indexes 0..len-1 of the list, as an amount
\* with 2 decimals, and 0 for the empty list.
C18_TotalIsSumOfLines ==
  call.op = "get_total_price" =>
    /\ result.exc = "None"
    /\ FEq(result.val, Round2(SumLinePrices(shopping_list, Len(shopping_list))))
    /\ shopping_list = <<>> => result.val = Fin(1, 0)

\* get_total_price() has returned 2 x 3.25 + 3 x 9.99 for a list of two lines
C18_Witness ==
  /\ call.op = "get_total_price"
  /\ shopping_list = << <<Pie325, 2>>, <<Banana999, 3>> >>
  /\ result = Return(Fin(1, 36470))

\* price x quantity of line k (counted from 1), as an amount with 2 decimals
LineAmount(list, k) == Round2(FMul(list[k][1].price, list[k][2]))

\* C19 as stated: whenever get_item_price(i) is called, it returns price x
\* quantity of line i if 0 <= i < len, and raises IndexError for every
\* other i, negative ones included; the list is as before.
C19_OnlyNonNegativeIndexes ==
  [][call'.op = "get_item_price" =>
       LET i == call'.args[1]
       IN /\ shopping_list' = shopping_list
          /\ IF 0 <= i /\ i < Len(shopping_list)
               THEN result' = Return(LineAmount(shopping_list, i + 1))
             ELSE result'.exc = "IndexError"
  ]_vars

\* C19 as the code has it: whenever get_item_price(i) is called, it returns
\* price x quantity of line i if 0 <= i < len, of line len + i if
\* -len <= i < 0, and raises IndexError for every other i; the list is as
\* before.
C19_LinePriceByPythonIndex ==
  [][call'.op = "get_item_price" =>
       LET i == call'.args[1]
           len == Len(shopping_list)
       IN /\ shopping_list' = shopping_list
          /\ IF 0 <= i /\ i < len
               THEN result' = Return(LineAmount(shopping_list, i + 1))
             ELSE IF 0 - len <= i /\ i < 0
               THEN result' = Return(LineAmount(shopping_list, len + i + 1))
             ELSE result'.exc = "IndexError"
  ]_vars

\* get_item_price(-1) has returned 3 x 9.99, the amount of the last of two
\* lines
C19_Witness ==
  /\ call.op = "get_item_price" /\ call.args = <<-1>>
  /\ shopping_list = << <<Pie325, 2>>, <<Banana999, 3>> >>
  /\ result = Return(Fin(1, 29970))

\* the lines of a text, each without its "\n"
RECURSIVE SplitLines(_)
SplitLines(text) ==
  IF text = <<>> THEN <<>>
  ELSE LET k == CHOOSE j \in 1..(Len(text) + 1) :
                  /\ j = Len(text) + 1 \/ text[j] = "\n"
                  /\ \A h \in 1..(j - 1) : text[h] # "\n"
       IN <<Upto(text, k - 1)>> \o SplitLines(From(text, k))

\* the price of a rendered line is hidden
Masked(line) == \E k \in 1..Len(line) : line[k] = "?"

\* a rendered line ends with the amount a, after "$" and zeros only
ShowsAmount(line, a) ==
  LET digits == FormatF2(a)
      start == Len(line) - Len(digits)
  IN /\ start >= 1
     /\ From(line, start) = digits
     /\ \E d \in 1..start :
          /\ line[d] = "$"
          /\ \A z \in (d + 1)..start : line[z] = "0"

\* C20: whenever show_list(mask_index) is called, the list and the pool are
\* as before; and if the list has lines, it returns a text in which the
\* price of line i is hidden when mask_index = i for 0 <= i < len, the price
\* of the TOTAL line is hidden when mask_index = len, no price is hidden
\* when mask_index is None, and every price that is not hidden is shown.
C20_MaskHidesExactlyOneLine ==
  [][call'.op = "show_list" =>
       /\ shopping_list' = shopping_list /\ items' = items
       /\ shopping_list # <<>> =>
            /\ result'.exc = "None"
            /\ LET n == Len(shopping_list)
                   mask == call'.args[1]
                   lines == SplitLines(result'.val)
                   \* line n is the TOTAL line, after the rule
                   LineOf(i) == IF i < n THEN lines[i + 2] ELSE lines[n + 3]
                   AmountOf(i) ==
                     IF i < n THEN LineAmount(shopping_list, i + 1)
                     ELSE GetTotalPrice(shopping_list)
                   hidden == {i \in 0..n : Masked(LineOf(i))}
               IN /\ Len(lines) = n + 3
                  /\ mask = <<>> => hidden = {}
                  /\ mask # <<>> /\ mask[1] \in 0..n => hidden = {mask[1]}
                  /\ \A i \in (0..n) \ hidden :
                       ShowsAmount(LineOf(i), AmountOf(i))
  ]_vars

\* the price field of a rendered line: the text after its "$"
PriceField(line) ==
  From(line, CHOOSE k \in 1..Len(line) : line[k] = "$")

\* the number of positions of a price field before its "."
IntPositions(field) ==
  (CHOOSE k \in 1..Len(field) : field[k] = ".") - 1

\* field is shown with every digit replaced by "?" and nothing else changed
MasksDigitsOf(field, shown) ==
  /\ Len(field) = Len(shown)
  /\ \A k \in 1..Len(shown) :
       field[k] = IF IsDigit(shown[k]) THEN "?" ELSE shown[k]

\* the order of magnitude of a finite amount > 0
OrderOf(a) == OrderOfMills(a.m)

\* C21: whenever show_list(mask_index) is called on a list that has lines,
\* it returns a text in which the price field of every item line and of the
\* TOTAL line has (max order of magnitude over the line amounts and the
\* total) + 1 positions before the ".", and a masked price field is the
\* field of the same line rendered unmasked with each digit replaced by "?".
C21_PriceFieldsShareWidth ==
  [][call'.op = "show_list" /\ shopping_list # <<>> =>
       /\ result'.exc = "None"
       /\ LET n == Len(shopping_list)
              lines == SplitLines(result'.val)
              plain == SplitLines(ShowList(shopping_list, <<>>).val)
              Row(i) == IF i < n THEN i + 2 ELSE n + 3
              max_order ==
                MaxOf(<<OrderOf(GetTotalPrice(shopping_list))>>
                        \o [k \in 1..n |->
                              OrderOf(LineAmount(shopping_list, k))])
          IN \A i \in 0..n :
               LET field == PriceField(lines[Row(i)])
                   shown == PriceField(plain[Row(i)])
               IN /\ IntPositions(shown) = max_order + 1
                  /\ IF Masked(lines[Row(i)])
                       THEN MasksDigitsOf(field, shown)
                     ELSE field = shown
  ]_vars

(***************************************************************************)
(* Properties of the dispatcher and its renderings (specification Spec).   *)
(***************************************************************************)
ShowItemsCmd == <<"s", "h", "o", "w", " ", "i", "t", "e", "m", "s">>

\* C22: from Idle with a pool that has entries, show items returns with the
\* message ITEMS followed by one line per entry, in ascending order of the
\* names, every line "- name", dots and a price field, all lines of the
\* same length and all price fields with (max order of the prices) + 1
\* positions before the "."; the pool is as before.
C22_ShowItemsListsSortedAligned ==
  [][Executes /\ Idle /\ cmd' = ShowItemsCmd /\ items # <<>> =>
       /\ pc' = "print" /\ items' = items
       /\ message'.type = "str"
       /\ LET lines == SplitLines(message'.args[1])
              names == Sorted({items[k].item.name : k \in 1..Len(items)})
              max_order ==
                MaxOf([k \in 1..Len(items) |-> OrderOf(items[k].item.price)])
          IN /\ Len(lines) = Len(items) + 1
             /\ lines[1] = <<"I", "T", "E", "M", "S">>
             /\ \A k \in 1..Len(items) :
                  /\ StartsWith(lines[k + 1],
                                <<"-", " ">> \o names[k] \o <<" ", ".">>)
                  /\ Len(lines[k + 1]) = Len(lines[2])
                  /\ IntPositions(PriceField(lines[k + 1])) = max_order + 1
  ]_vars

OtherInput(c) ==
  /\ c \notin {<<"q">>, <<"q", "u", "i", "t">>, <<"a">>, <<"a", "s", "k">>,
               <<"l">>, <<"l", "i", "s", "t">>}
  /\ ~StartsWith(c, <<"s", "h", "o", "w", " ">>)
  /\ ~StartsWith(c, <<"a", "d", "d">>)
  /\ ~StartsWith(c, <<"d", "e", "l">>)

\* C23: in Idle an input that is none of q, quit, a, ask, l, list and does
\* not start with "show " (with the space), "add" or "del" is answered with
\* "<input>" is not a valid command. and changes neither the pool, the list,
\* the pending answer nor the running flag; so only an input starting with
\* "show " reaches the show handling.
C23_OtherInputIsRejected ==
  [][Executes /\ Idle /\ OtherInput(cmd') =>
       /\ pc' = "print"
       /\ message' = Str("\"{}\" is not a valid command.", <<cmd'>>)
       /\ UNCHANGED <<items, shopping_list, correct_answer,
                      continue_execution>>
  ]_vars

ListCmds == {<<"l">>, <<"l", "i", "s", "t">>}

QuitCmds == {<<"q">>, <<"q", "u", "i", "t">>}

\* C25: the running flag starts true; it falls only in the execution of q
\* or quit in Idle, which sets the message "Have a nice day!" and leaves
\* the pool, the list and the pending answer as they were; once it is
\* false the loop reads no further input, so no command is executed and the
\* flag never rises again.
C25_RunningFallsOnlyOnQuit ==
  /\ continue_execution = TRUE
  /\ [][/\ continue_execution /\ ~continue_execution' =>
            /\ Executes /\ Idle /\ cmd' \in QuitCmds
            /\ pc' = "print"
            /\ message' = Str("Have a nice day!", <<>>)
            /\ UNCHANGED <<items, shopping_list, correct_answer>>
        /\ ~continue_execution =>
            /\ ~continue_execution'
            /\ ~Executes
            /\ pc' # "input"
     ]_vars

\* the loop has ended after a quit
C25_Witness ==
  pc = "done" /\ ~continue_execution /\ message = NoMessage /\ items # <<>>

\* C26: in the text show_list returns for a non-empty list with quantities
\* in 1..9, every item line is as long as the TOTAL line, whatever the
\* lengths of the item names.
C26_ItemLinesAsLongAsTotalLine ==
  [][/\ call'.op = "show_list" /\ shopping_list # <<>>
     /\ result'.exc = "None"
     /\ \A k \in 1..Len(shopping_list) : shopping_list[k][2] \in 1..9
     => LET n == Len(shopping_list)
            lines == SplitLines(result'.val)
        IN \A k \in 1..n : Len(lines[k + 1]) = Len(lines[n + 3])
  ]_vars

(***************************************************************************)
(* The read loop with a user who, asked for an amount, enters a number     *)
(* again and again: the statements after execute_command always run        *)
(* (weak fairness of PrintMessage), and a line that parses as a number is  *)
(* entered at some prompt of every quiz (strong fairness, since the prompt *)
(* is left and reached again with every line that does not parse).         *)
(***************************************************************************)
\* the lines typed in this specification: every command once, with two
\* items to add and one to delete, and the answers
QuizInputs ==
  {<<"q">>, <<"a">>, <<"l">>, <<"s", "h", "o", "w", " ", "l", "i", "s", "t">>,
   <<"h", "e", "l", "p">>, AddCmd(Pie, <<"1", ".", "5">>), DelCmd(Pie),
   AddCmd(Banana, <<"1", ".", "5", "0", "4">>)}
    \cup AnswerTexts

\* the lines among them that float() accepts
NumberInputs == {c \in QuizInputs : ParseFloat(c).ok}

AnswersWithNumber == \E c \in NumberInputs : ProcessAnswer(c)

QuizNext ==
  \/ \E c \in QuizInputs : ProcessAnswer(c)
  \/ \E c \in QuizInputs : Quit(c)
  \/ \E c \in QuizInputs : ProcessAsk(c)
  \/ \E c \in QuizInputs : RefreshList(c)
  \/ \E c \in QuizInputs : ProcessShow(c)
  \/ \E c \in QuizInputs : ProcessAddItem(c)
  \/ \E c \in QuizInputs : ProcessDelItem(c)
  \/ \E c \in QuizInputs : InvalidCommand(c)
  \/ PrintMessage

LiveSpec ==
  /\ Init /\ [][QuizNext]_vars
  /\ WF_vars(PrintMessage) /\ SF_vars(AnswersWithNumber)

GradingFmts ==
  {CorrectMsg.fmt, "Not Correct! (Expected ${})\nYou answered ${}."}

\* the engine is back in Idle with a grading message to print
Graded ==
  pc = "print" /\ correct_answer = None /\ message.fmt \in GradingFmts

\* C27: after an ask the engine is in AwaitingAnswer and stays there, with
\* the same pending answer, through every line that does not parse as a
\* number; the first line that parses produces one grading message
\* (Correct! or Not Correct!) and returns the engine to Idle; a pending
\* answer is set by an ask only and a grading message is produced in
\* AwaitingAnswer only; and with a user who eventually enters a number,
\* every AwaitingAnswer is followed by a grading and Idle.
C27_EveryQuizIsGraded ==
  /\ [][/\ Executes /\ AwaitingAnswer /\ ~ParseFloat(cmd').ok =>
             correct_answer' = correct_answer /\ message' = NotANumberMsg
        /\ Executes /\ AwaitingAnswer /\ ParseFloat(cmd').ok => Graded'
        /\ Idle /\ AwaitingAnswer' => Executes /\ cmd' \in AskCmds
        /\ AwaitingAnswer /\ ~Executes => correct_answer' = correct_answer
        /\ Executes /\ message'.fmt \in GradingFmts => AwaitingAnswer
       ]_vars
  /\ AwaitingAnswer ~> Graded

\* a quiz that went through a line that is not a number has been graded
\* "Not Correct!" on the answer 3
C27_Witness ==
  /\ Graded
  /\ cmd = <<"3">>
  /\ message.fmt # CorrectMsg.fmt
  /\ shopping_list # <<>>

\* C28: the shopping list changes only in the execution of l or list in
\* Idle: every other step (add, del, ask, show, quit, unknown command,
\* answer, print) leaves every line, and so the total price, as it was; in
\* particular a del of an item on the list keeps its line.
C28_ListChangesOnlyByListCommand ==
  [][/\ shopping_list' # shopping_list =>
          Executes /\ Idle /\ cmd' \in ListCmds
     /\ ~(Executes /\ Idle /\ cmd' \in ListCmds) =>
          /\ Len(shopping_list') = Len(shopping_list)
          /\ \A k \in 1..Len(shopping_list) :
               shopping_list'[k] = shopping_list[k]
          /\ GetTotalPrice(shopping_list') = GetTotalPrice(shopping_list)
    ]_vars

\* pie was deleted from the pool and its line is still on the list
C28_Witness ==
  /\ pc = "print" /\ cmd = DelCmd(Pie)
  /\ message = Str("{} removed successfully.", <<Pie>>)
  /\ Pie \notin {items[k].item.name : k \in 1..Len(items)}
  /\ \E k \in 1..Len(shopping_list) : shopping_list[k][1].name = Pie

\* C29: in every state of the read loop, a pending answer is a finite
\* amount above zero and is the price of a line of the current shopping
\* list or its total price.
C29_PendingAnswerIsOnTheList ==
  correct_answer # None =>
    /\ correct_answer.k = "fin"
    /\ FGtZero(correct_answer)
    /\ \/ \E k \in 1..Len(shopping_list) :
            correct_answer = LineAmount(shopping_list, k)
       \/ correct_answer = GetTotalPrice(shopping_list)

\* the total of a list of two lines is asked for and the prompt is up
C29_Witness ==
  /\ pc = "input" /\ correct_answer # None
  /\ Len(shopping_list) = 2
  /\ correct_answer = GetTotalPrice(shopping_list)
  /\ \A k \in 1..2 : correct_answer # LineAmount(shopping_list, k)

\* C30: for every non-empty shopping list and every mask index (none, or
\* 0..length) the renderer before the refactoring (TOTAL padding
\* q_len + d_len) returns the text the refactored renderer (TOTAL padding
\* + 7) returns, or raises the same exception.
C30_LegacyRendersTheSame ==
  [][/\ call'.op = "legacy_show_list" /\ shopping_list # <<>>
     /\ \/ call'.args[1] = <<>>
        \/ call'.args[1][1] \in 0..Len(shopping_list)
     => LET refactored == ShowList(shopping_list, call'.args[1])
        IN /\ result'.exc = refactored.exc
           /\ result' = refactored
  ]_vars

\* the renderer before the refactoring has returned a list of two lines
\* with the second line masked
C30_Witness ==
  /\ call.op = "legacy_show_list" /\ call.args = << <<1>> >>
  /\ Len(shopping_list) = 2
  /\ result.exc = "None"
  /\ \E i \in 1..Len(result.val) : result.val[i] = "?"

====
